---- MODULE Spec2Model ----
(***************************************************************************)
(* A model of the 6502 simulator of src/nes_emulator/src/cpu.rs: the flat  *)
(* 64KB memory (Mem), the instruction catalog (OPCODES, OPCODE_MAP), the   *)
(* handler table (INSTRUCTION_HANDLERS), the address resolver              *)
(* (read_operand_address) and the execution engine (CPU).                  *)
(*                                                                         *)
(* Representation.  A u8 is an integer in 0..255 and a u16 an integer in   *)
(* 0..65535; wrapping arithmetic is written % 256 and % 65536.  The array  *)
(* data: [u8; 65536] is kept as the function from the addresses holding a  *)
(* non-zero byte to that byte; every other address holds 0 (Mem::new       *)
(* fills the array with 0).  A slice &[u8] is kept the same way: its       *)
(* length and its non-zero bytes by 0-based index.  A Result is a record   *)
(* with the field ok; a panic (unwrap of an Err, todo!) is the outcome     *)
(* "panic".                                                                *)
(***************************************************************************)
EXTENDS Integers, Sequences, FiniteSets, TLC

VARIABLES
    cpu,      \* the CPU struct: reg_a, reg_x, reg_y, reg_status, pc, mem
    call,     \* the public operation entered last
    ret,      \* what that operation returned, "running" inside run()'s loop
    program,  \* the slice given to the last load() or interpret()
    pre,      \* the CPU struct as it was when that operation was entered
    steps,    \* iterations of run()'s loop taken by the operation
    signal,   \* what the last step() of the operation returned, if it made one
    ncalls,   \* public operations called on this engine so far
    mem,      \* a Mem of its own, as the memory tests make one: Mem::new()
    mcall     \* the last operation called on mem: its arguments and result,
              \* mem as it was before, and the operations called so far

vars == <<cpu, call, ret, program, pre, steps, signal, ncalls, mem, mcall>>

\* The variables of the engine.
cpu_vars == <<cpu, call, ret, program, pre, steps, signal, ncalls>>

-----------------------------------------------------------------------------
(* Bounds of the model. *)

\* Public operations called on one engine before it is dropped.
MaxCalls == 3

\* Iterations of run()'s loop that are followed.
MaxSteps == 4

\* The longest run of increment-X instructions in a program of test_inx*.
MaxInx == 258

\* Operations called on one Mem before it is dropped.
MaxMemOps == 2

-----------------------------------------------------------------------------
(* Constants of the program. *)

INIT_PROGRAM_COUNTER_ADDR == 65532

MEM_ADDR_MAX == 65535

MEM_ADDR_SPACE_SIZE == MEM_ADDR_MAX + 1

MEM_PRG_ROM_ADDR_START == 32768

MEM_PRG_ROM_ADDR_END == 65535

MEM_PRG_ROM_SIZE == (MEM_PRG_ROM_ADDR_END - MEM_PRG_ROM_ADDR_START) + 1

DEBUG_ADDR == 65535

OPCODE_BRK == 0

OPCODE_LDA_IMMEDIATE == 169

OPCODE_LDA_ZEROPAGE == 165

OPCODE_LDA_ZEROPAGEX == 181

OPCODE_LDA_ABSOLUTE == 173

OPCODE_LDA_ABSOLUTEX == 189

OPCODE_LDA_ABSOLUTEY == 185

OPCODE_LDA_INDIRECTX == 161

OPCODE_LDA_INDIRECTY == 177

OPCODE_JMP_ABSOLUTE == 76

OPCODE_JMP_INDIRECT == 108

OPCODE_INX == 232

OPCODE_TAX == 170

\* The bits of Status.
StatusC == 1

StatusZ == 2

StatusI == 4

StatusD == 8

StatusB == 16

StatusV == 64

StatusN == 128

\* Status::empty()
StatusEmpty == 0

U8 == 0..255

U16 == 0..65535

-----------------------------------------------------------------------------
(* Result values. *)

Ok(v) == [ok |-> TRUE, val |-> v]

Err(msg) == [ok |-> FALSE, val |-> msg]

-----------------------------------------------------------------------------
(* Slices. *)

\* The slice of length n whose non-zero bytes are those of the function nz
\* (0-based index |-> byte).
Slice(n, nz) == [len |-> n, data |-> nz]

\* The slice holding the bytes of the sequence s.
SliceOf(s) ==
    Slice(Len(s), [i \in {j - 1 : j \in {k \in 1..Len(s) : s[k] # 0}} |-> s[i + 1]])

\* val[i]
At(val, i) == IF i \in DOMAIN val.data THEN val.data[i] ELSE 0

-----------------------------------------------------------------------------
(* Mem *)

\* Mem::new
MemNew == [a \in {} |-> 0]

\* Mem::read
read(data, addr) == IF addr \in DOMAIN data THEN data[addr] ELSE 0

\* Mem::read16
read16(data, addr) ==
    IF addr = MEM_ADDR_MAX
    THEN Err("cannot read two bytes starting from address 0xffff")
    ELSE LET lo == read(data, addr)
             hi == read(data, (addr + 1) % 65536)
         IN  Ok(hi * 256 + lo)

\* Mem::write
write(data, addr, val) ==
    IF val = 0
    THEN [a \in DOMAIN data \ {addr} |-> data[a]]
    ELSE [a \in DOMAIN data \cup {addr} |-> IF a = addr THEN val ELSE data[a]]

\* Mem::write16 storing the high byte first (big endian).
write16_big_endian(data, addr, val) ==
    IF addr = MEM_ADDR_MAX
    THEN [data |-> data, res |-> Err("cannot write two bytes at address 0xffff")]
    ELSE LET hi == (val \div 256) % 256
             d1 == write(data, addr, hi)
             lo == val % 256
             d2 == write(d1, (addr + 1) % 65536, lo)
         IN  [data |-> d2, res |-> Ok("unit")]

\* Mem::write16 writing the low byte before it checks the address.
write16_low_first(data, addr, val) ==
    LET lo == val % 256
        d1 == write(data, addr, lo)
    IN  IF addr = MEM_ADDR_MAX
        THEN [data |-> d1, res |-> Err("cannot write two bytes at address 0xffff")]
        ELSE LET hi == (val \div 256) % 256
                 d2 == write(d1, (addr + 1) % 65536, hi)
             IN  [data |-> d2, res |-> Ok("unit")]

\* Mem::write16: the memory it leaves and its result.
write16(data, addr, val) ==
    IF addr = MEM_ADDR_MAX
    THEN [data |-> data, res |-> Err("cannot write two bytes at address 0xffff")]
    ELSE LET lo == val % 256
             d1 == write(data, addr, lo)
             hi == (val \div 256) % 256
             d2 == write(d1, (addr + 1) % 65536, hi)
         IN  [data |-> d2, res |-> Ok("unit")]

\* Mem::write_range writing the bytes that fit before it fails.
write_range_truncates(data, start_addr, val) ==
    LET fits == IF start_addr + val.len > MEM_ADDR_SPACE_SIZE
                THEN MEM_ADDR_SPACE_SIZE - start_addr
                ELSE val.len
        covered == start_addr..(start_addr + fits - 1)
        kept == DOMAIN data \ covered
        set == {start_addr + i : i \in {j \in DOMAIN val.data : j < fits}}
        d == [a \in kept \cup set |->
                 IF a \in set THEN val.data[a - start_addr] ELSE data[a]]
    IN  IF start_addr + val.len > MEM_ADDR_SPACE_SIZE
        THEN [data |-> d, res |-> Err("Range exceeds the memory space")]
        ELSE [data |-> d, res |-> Ok("unit")]

\* Mem::write_range with the range check off by one (>= for >).
write_range_off_by_one(data, start_addr, val) ==
    IF start_addr + val.len >= MEM_ADDR_SPACE_SIZE
    THEN [data |-> data, res |-> Err("Range exceeds the memory space")]
    ELSE LET covered == start_addr..(start_addr + val.len - 1)
             kept == DOMAIN data \ covered
             set == {start_addr + i : i \in DOMAIN val.data}
         IN  [data |-> [a \in kept \cup set |->
                           IF a \in set THEN val.data[a - start_addr] ELSE data[a]],
              res |-> Ok("unit")]

\* Mem::write_range: the memory it leaves and its result.  The loop
\* for i in 0..val.len() { write(start_addr + i, val[i]) } leaves val[i] at
\* start_addr + i for every i and every other address as it was.
write_range(data, start_addr, val) ==
    IF start_addr + val.len > MEM_ADDR_SPACE_SIZE
    THEN [data |-> data, res |-> Err("Range exceeds the memory space")]
    ELSE LET covered == start_addr..(start_addr + val.len - 1)
             kept == DOMAIN data \ covered
             set == {start_addr + i : i \in DOMAIN val.data}
         IN  [data |-> [a \in kept \cup set |->
                           IF a \in set THEN val.data[a - start_addr] ELSE data[a]],
              res |-> Ok("unit")]

-----------------------------------------------------------------------------
(* The instruction catalog and the handler table. *)

OpCode(code, name, bytes, cycles, addressing_mode) ==
    [code |-> code, name |-> name, bytes |-> bytes, cycles |-> cycles,
     addressing_mode |-> addressing_mode]

OPCODES == <<
    OpCode(OPCODE_BRK, "BRK", 0, 7, "NoneAddressing"),
    OpCode(OPCODE_JMP_ABSOLUTE, "JMP", 3, 3, "Absolute"),
    OpCode(OPCODE_LDA_IMMEDIATE, "LDA", 2, 2, "Immediate"),
    OpCode(OPCODE_LDA_ZEROPAGE, "LDA", 2, 2, "ZeroPage"),
    OpCode(OPCODE_LDA_ZEROPAGEX, "LDA", 2, 2, "ZeroPageX"),
    OpCode(OPCODE_LDA_ABSOLUTE, "LDA", 3, 4, "Absolute"),
    OpCode(OPCODE_LDA_ABSOLUTEX, "LDA", 3, 4, "AbsoluteX"),
    OpCode(OPCODE_LDA_ABSOLUTEY, "LDA", 3, 4, "AbsoluteY"),
    OpCode(OPCODE_LDA_INDIRECTX, "LDA", 2, 6, "IndirectX"),
    OpCode(OPCODE_LDA_INDIRECTY, "LDA", 2, 5, "IndirectY"),
    OpCode(OPCODE_INX, "INX", 1, 2, "NoneAddressing"),
    OpCode(OPCODE_TAX, "TAX", 1, 1, "NoneAddressing") >>

\* OPCODE_MAP: every descriptor of OPCODES inserted in order, a later one
\* replacing an earlier one of the same code.
OPCODE_MAP ==
    [c \in {OPCODES[i].code : i \in 1..Len(OPCODES)} |->
        LET last == CHOOSE i \in 1..Len(OPCODES) :
                        /\ OPCODES[i].code = c
                        /\ \A j \in 1..Len(OPCODES) : OPCODES[j].code = c => j <= i
        IN  OPCODES[last]]

\* INSTRUCTION_HANDLERS with a handler inserted for OPCODE_JMP_INDIRECT too,
\* the one opcode constant that OPCODES has no descriptor for.
INSTRUCTION_HANDLERS_with_jmp_indirect ==
    [c \in {OPCODE_BRK, OPCODE_LDA_IMMEDIATE, OPCODE_LDA_ZEROPAGE,
            OPCODE_LDA_ZEROPAGEX, OPCODE_LDA_ABSOLUTE, OPCODE_LDA_ABSOLUTEX,
            OPCODE_LDA_ABSOLUTEY, OPCODE_LDA_INDIRECTX, OPCODE_LDA_INDIRECTY,
            OPCODE_JMP_ABSOLUTE, OPCODE_JMP_INDIRECT, OPCODE_INX, OPCODE_TAX} |->
        CASE c = OPCODE_BRK -> "brk"
          [] c \in {OPCODE_JMP_ABSOLUTE, OPCODE_JMP_INDIRECT} -> "jmp"
          [] c = OPCODE_INX -> "inx"
          [] c = OPCODE_TAX -> "tax"
          [] OTHER -> "lda"]

\* INSTRUCTION_HANDLERS: opcode byte |-> the name of the handler.
INSTRUCTION_HANDLERS ==
    [c \in {OPCODE_BRK, OPCODE_LDA_IMMEDIATE, OPCODE_LDA_ZEROPAGE,
            OPCODE_LDA_ZEROPAGEX, OPCODE_LDA_ABSOLUTE, OPCODE_LDA_ABSOLUTEX,
            OPCODE_LDA_ABSOLUTEY, OPCODE_LDA_INDIRECTX, OPCODE_LDA_INDIRECTY,
            OPCODE_JMP_ABSOLUTE, OPCODE_INX, OPCODE_TAX} |->
        CASE c = OPCODE_BRK -> "brk"
          [] c = OPCODE_JMP_ABSOLUTE -> "jmp"
          [] c = OPCODE_INX -> "inx"
          [] c = OPCODE_TAX -> "tax"
          [] OTHER -> "lda"]

-----------------------------------------------------------------------------
(* Status *)

\* Status::contains
contains(status, flag) == (status \div flag) % 2 = 1

\* Status::insert
insert(status, flag) == IF contains(status, flag) THEN status ELSE status + flag

\* Status::remove
remove(status, flag) == IF contains(status, flag) THEN status - flag ELSE status

-----------------------------------------------------------------------------
(* CPU *)

\* CPU::new
CpuNew ==
    [reg_a |-> 0, reg_x |-> 0, reg_y |-> 0, reg_status |-> StatusEmpty,
     pc |-> 0, mem |-> MemNew]

\* CPU::load with the reset vector written before the program.
load_vector_first(c, prog) ==
    LET v == write16(c.mem, INIT_PROGRAM_COUNTER_ADDR, MEM_PRG_ROM_ADDR_START)
        w == write_range(v.data, MEM_PRG_ROM_ADDR_START, prog)
    IN  IF ~v.res.ok
        THEN [cpu |-> c, res |-> v.res]
        ELSE IF ~w.res.ok
        THEN [cpu |-> [c EXCEPT !.mem = v.data], res |-> w.res]
        ELSE [cpu |-> [c EXCEPT !.mem = w.data], res |-> w.res]

\* CPU::load: the engine it leaves and its result.
load(c, prog) ==
    LET w == write_range(c.mem, MEM_PRG_ROM_ADDR_START, prog)
    IN  IF ~w.res.ok
        THEN [cpu |-> c, res |-> w.res]
        ELSE LET v == write16(w.data, INIT_PROGRAM_COUNTER_ADDR, MEM_PRG_ROM_ADDR_START)
             IN  [cpu |-> [c EXCEPT !.mem = v.data], res |-> v.res]

\* CPU::reset without the line self.reg_y = 0.
reset_keeps_y(c) ==
    LET v == read16(c.mem, INIT_PROGRAM_COUNTER_ADDR)
        z == [c EXCEPT !.reg_a = 0, !.reg_x = 0, !.reg_status = StatusEmpty]
    IN  IF v.ok
        THEN [cpu |-> [z EXCEPT !.pc = v.val], ret |-> "returned"]
        ELSE [cpu |-> z, ret |-> "panic"]

\* CPU::reset: the engine it leaves, and "panic" if the unwrap fails.
reset(c) ==
    LET v == read16(c.mem, INIT_PROGRAM_COUNTER_ADDR)
        z == [c EXCEPT !.reg_a = 0, !.reg_x = 0, !.reg_y = 0,
                       !.reg_status = StatusEmpty]
    IN  IF v.ok
        THEN [cpu |-> [z EXCEPT !.pc = v.val], ret |-> "returned"]
        ELSE [cpu |-> z, ret |-> "panic"]

\* CPU::read_mem
read_mem(c, addr) == read(c.mem, addr)

\* CPU::read_mem16: not ok stands for the panic of unwrap.
read_mem16(c, addr) == read16(c.mem, addr)

\* CPU::read_operand_address with the zero-page index sums not wrapped to a
\* byte (as u16 before the addition).
read_operand_address_no_page_wrap(c, addr, addr_mode) ==
    CASE addr_mode = "Immediate" -> Ok(addr)
      [] addr_mode = "ZeroPage" -> Ok(read_mem(c, addr))
      [] addr_mode = "ZeroPageX" -> Ok(read_mem(c, addr) + c.reg_x)
      [] addr_mode = "ZeroPageY" -> Ok(read_mem(c, addr) + c.reg_y)
      [] addr_mode = "Absolute" -> read_mem16(c, addr)
      [] addr_mode = "AbsoluteX" ->
            LET b == read_mem16(c, addr)
            IN  IF b.ok THEN Ok((b.val + c.reg_x) % 65536) ELSE b
      [] addr_mode = "AbsoluteY" ->
            LET b == read_mem16(c, addr)
            IN  IF b.ok THEN Ok((b.val + c.reg_y) % 65536) ELSE b
      [] addr_mode = "Indirect" ->
            LET addr_of_addr == read_mem16(c, addr)
            IN  IF addr_of_addr.ok THEN read_mem16(c, addr_of_addr.val)
                ELSE addr_of_addr
      [] addr_mode = "IndirectX" ->
            read_mem16(c, read_mem(c, addr) + c.reg_x)
      [] addr_mode = "IndirectY" ->
            LET p == read_mem16(c, addr)
                b == read_mem16(c, p.val)
            IN  IF ~p.ok THEN p
                ELSE IF b.ok THEN Ok((b.val + c.reg_y) % 65536) ELSE b
      [] addr_mode = "NoneAddressing" -> Ok(DEBUG_ADDR)

\* CPU::read_operand_address: Ok(address), or not ok where a read_mem16
\* inside it panics.
read_operand_address(c, addr, addr_mode) ==
    CASE addr_mode = "Immediate" -> Ok(addr)
      [] addr_mode = "ZeroPage" -> Ok(read_mem(c, addr))
      [] addr_mode = "ZeroPageX" -> Ok((read_mem(c, addr) + c.reg_x) % 256)
      [] addr_mode = "ZeroPageY" -> Ok((read_mem(c, addr) + c.reg_y) % 256)
      [] addr_mode = "Absolute" -> read_mem16(c, addr)
      [] addr_mode = "AbsoluteX" ->
            LET b == read_mem16(c, addr)
            IN  IF b.ok THEN Ok((b.val + c.reg_x) % 65536) ELSE b
      [] addr_mode = "AbsoluteY" ->
            LET b == read_mem16(c, addr)
            IN  IF b.ok THEN Ok((b.val + c.reg_y) % 65536) ELSE b
      [] addr_mode = "Indirect" ->
            LET addr_of_addr == read_mem16(c, addr)
            IN  IF addr_of_addr.ok THEN read_mem16(c, addr_of_addr.val)
                ELSE addr_of_addr
      [] addr_mode = "IndirectX" ->
            read_mem16(c, (read_mem(c, addr) + c.reg_x) % 256)
      [] addr_mode = "IndirectY" ->
            LET p == read_mem16(c, addr)
                b == read_mem16(c, p.val)
            IN  IF ~p.ok THEN p
                ELSE IF b.ok THEN Ok((b.val + c.reg_y) % 65536) ELSE b
      [] addr_mode = "NoneAddressing" -> Ok(DEBUG_ADDR)

\* CPU::set_negative_flag
set_negative_flag(c, register) ==
    IF (register \div 128) % 2 = 0
    THEN [c EXCEPT !.reg_status = remove(c.reg_status, StatusN)]
    ELSE [c EXCEPT !.reg_status = insert(c.reg_status, StatusN)]

\* CPU::set_zero_flag
set_zero_flag(c, register) ==
    IF register = 0
    THEN [c EXCEPT !.reg_status = insert(c.reg_status, StatusZ)]
    ELSE [c EXCEPT !.reg_status = remove(c.reg_status, StatusZ)]

\* CPU::brk setting the break flag, as the 6502's BRK does.
brk_sets_b(c, addr) == [c EXCEPT !.reg_status = insert(c.reg_status, StatusB)]

\* CPU::brk
brk(c, addr) == c

\* CPU::inx with a saturating add: X stays at 255.
inx_saturates(c, addr) ==
    LET val_x == IF c.reg_x = 255 THEN 255 ELSE c.reg_x + 1
        c1 == [c EXCEPT !.reg_x = val_x]
        c2 == set_negative_flag(c1, c1.reg_x)
    IN  set_zero_flag(c2, c2.reg_x)

\* CPU::inx setting the carry flag when X wraps to 0.
inx_sets_carry(c, addr) ==
    LET x == (c.reg_x + 1) % 256
        c1 == [c EXCEPT !.reg_x = x]
        c2 == set_zero_flag(c1, x)
        c3 == set_negative_flag(c2, x)
    IN  IF x = 0 THEN [c3 EXCEPT !.reg_status = insert(c3.reg_status, StatusC)]
        ELSE c3

\* CPU::inx
inx(c, addr) ==
    LET val_x == (c.reg_x + 1) % 256
        c1 == [c EXCEPT !.reg_x = val_x]
        c2 == set_negative_flag(c1, c1.reg_x)
    IN  set_zero_flag(c2, c2.reg_x)

\* CPU::jmp
jmp(c, addr) == [c EXCEPT !.pc = addr]

\* CPU::lda without the update of the flags.
lda_no_flags(c, addr) == [c EXCEPT !.reg_a = read_mem(c, addr)]

\* CPU::lda
lda(c, addr) ==
    LET c1 == [c EXCEPT !.reg_a = read_mem(c, addr)]
        c2 == set_negative_flag(c1, c1.reg_a)
    IN  set_zero_flag(c2, c2.reg_a)

\* CPU::tax moving A to X: A is cleared.
tax_clears_a(c, addr) ==
    LET c1 == [c EXCEPT !.reg_x = c.reg_a, !.reg_a = 0]
        c2 == set_negative_flag(c1, c1.reg_x)
    IN  set_zero_flag(c2, c2.reg_x)

\* CPU::tax
tax(c, addr) ==
    LET c1 == [c EXCEPT !.reg_x = c.reg_a]
        c2 == set_negative_flag(c1, c1.reg_x)
    IN  set_zero_flag(c2, c2.reg_x)

\* The call handler(self, addr) through the function pointer of the table.
handler(name, c, addr) ==
    CASE name = "brk" -> brk(c, addr)
      [] name = "inx" -> inx(c, addr)
      [] name = "jmp" -> jmp(c, addr)
      [] name = "lda" -> lda(c, addr)
      [] name = "tax" -> tax(c, addr)

\* CPU::dispatch_instruction: the engine it leaves and "continue" (true),
\* "halt" (false) or "panic".
dispatch_instruction(c, opcode) ==
    LET curr_pc == c.pc
        addr == read_operand_address(c, (c.pc + 1) % 65536, opcode.addressing_mode)
        c1 == handler(INSTRUCTION_HANDLERS[opcode.code], c, addr.val)
        c2 == IF curr_pc = c1.pc
              THEN [c1 EXCEPT !.pc = (c1.pc + opcode.bytes) % 65536]
              ELSE c1
    IN  IF opcode.code \notin DOMAIN INSTRUCTION_HANDLERS
        THEN [cpu |-> c, ret |-> "panic"]
        ELSE IF ~addr.ok
        THEN [cpu |-> c, ret |-> "panic"]
        ELSE [cpu |-> c2,
              ret |-> IF opcode.code = OPCODE_BRK THEN "halt" ELSE "continue"]

\* CPU::step skipping an opcode byte it does not know.
step_skips_unknown(c) ==
    LET val == read_mem(c, c.pc)
    IN  IF val \in DOMAIN OPCODE_MAP
        THEN dispatch_instruction(c, OPCODE_MAP[val])
        ELSE [cpu |-> [c EXCEPT !.pc = (c.pc + 1) % 65536], ret |-> "continue"]

\* CPU::step
step(c) ==
    LET val == read_mem(c, c.pc)
    IN  IF val \in DOMAIN OPCODE_MAP
        THEN dispatch_instruction(c, OPCODE_MAP[val])
        ELSE [cpu |-> c, ret |-> "panic"]

\* The first statement of CPU::run.
run_entry(c) == [c EXCEPT !.pc = MEM_PRG_ROM_ADDR_START]

\* The loop of CPU::run from the engine c, loop { if !self.step() { break; } },
\* followed for at most n iterations: the engine it leaves and what the last
\* step() returned.
RECURSIVE RepeatStep(_, _)
RepeatStep(c, n) ==
    LET r == step(c)
    IN  IF r.ret = "continue" /\ n > 1 THEN RepeatStep(r.cpu, n - 1) ELSE r

-----------------------------------------------------------------------------
(* The callers of the engine: the programs they load and the values they   *)
(* assign to the public fields.                                            *)

\* Programs given to load() and interpret().  The ROM region holds 32768
\* bytes and the reset vector lies at offsets 32764 and 32765 of it.
Programs ==
    { SliceOf(<< >>),
      \* LDA #$8F; BRK
      SliceOf(<<169, 143, 0>>),
      \* LDA #$00; TAX; BRK
      SliceOf(<<169, 0, 170, 0>>),
      \* JMP $8000, a jump to itself
      SliceOf(<<76, 0, 128>>),
      \* INX; JMP $8005; an unknown opcode; LDA #$7F; BRK
      SliceOf(<<232, 76, 5, 128, 2, 169, 127, 0>>),
      \* LDA ($FFFF),Y
      SliceOf(<<177, 255, 255>>),
      \* INX; an unknown opcode
      SliceOf(<<232, 2>>),
      \* LDA ($03),Y; the bytes $80 $05 $80 $42
      SliceOf(<<177, 3, 128, 5, 128, 66>>),
      \* INX; LDA $FF,X; LDA ($FF,X); BRK
      SliceOf(<<232, 181, 255, 161, 255, 0>>),
      \* LDA $10; LDA $800B; LDA $FFFF,X; LDA $FFF0,Y; the byte $77
      SliceOf(<<165, 16, 173, 11, 128, 189, 255, 255, 185, 240, 255, 119>>),
      \* The whole ROM region: JMP $FFFE; ...; $12 $34 where the reset vector
      \* lies; LDA absolute in the last two bytes of memory.
      Slice(32768, (0 :> 76) @@ (1 :> 254) @@ (2 :> 255) @@ (32764 :> 18)
                   @@ (32765 :> 52) @@ (32766 :> 173) @@ (32767 :> 1)),
      \* One byte more than the ROM region holds.
      Slice(32769, (0 :> 169) @@ (1 :> 1) @@ (32768 :> 7)),
      \* A program whose last byte lies on the low byte of the reset vector.
      Slice(32765, (0 :> 232) @@ (32764 :> 85)),
      \* A program that ends right below the reset vector, with JMP as its
      \* last byte: its operand is the reset vector.
      Slice(32764, (32763 :> 76)) }

\* LDA #v; BRK
LdaProgram(v) == SliceOf(<<169, v, 0>>)

\* LDA #v; TAX; BRK
LdaTaxProgram(v) == SliceOf(<<169, v, 170, 0>>)

\* The programs of the tests test_lda_immediate_* and test_tax_*, for every
\* byte v.
BytePrograms == {LdaProgram(v) : v \in U8} \cup {LdaTaxProgram(v) : v \in U8}

\* INX n times; BRK
InxProgram(n) == Slice(n + 1, [i \in 0..(n - 1) |-> 232])

\* The programs of the tests test_inx*, for every number of INX up to MaxInx.
InxPrograms == {InxProgram(n) : n \in 0..MaxInx}

\* Values assigned to a public field: <<field, value>>.
Assignments ==
    {<<"pc", v>> : v \in {0, 32768, 32769, 65531, 65534, 65535}}
    \cup {<<"reg_a", 128>>, <<"reg_x", 255>>, <<"reg_y", 1>>, <<"reg_y", 255>>,
          <<"reg_status", 223>>, <<"reg_status", 1>>}

\* Addresses given to the operations of Mem.
MemAddrs == {0, 1, 255, 65533, 65534, 65535}

\* 16-bit values given to write16: 0xCCFF and 0xFFCC are those of the tests.
MemVals == {0, 255, 256, 52479, 65484}

\* Slices given to write_range.
MemSlices ==
    { SliceOf(<< >>),
      SliceOf(<<7>>),
      SliceOf(<<7, 0>>),
      SliceOf(<<1, 2, 3, 4, 5>>),
      Slice(65535, (0 :> 9) @@ (65534 :> 7)),
      Slice(65536, (0 :> 9) @@ (65535 :> 7)),
      Slice(65537, (0 :> 9) @@ (65536 :> 7)) }

\* What mcall holds of the call op(addr, val) with the result res on the
\* memory before, the n-th call on it.
MemCall(op, addr, val, res, before, n) ==
    [op |-> op, addr |-> addr, val |-> val, res |-> res, pre |-> before, n |-> n]

\* let mut mem = Mem::new()
MemCallNew == MemCall("new", 0, 0, Ok("unit"), MemNew, 0)

-----------------------------------------------------------------------------
(* The state machine. *)

Init ==
    /\ cpu = CpuNew
    /\ call = "new"
    /\ ret = "returned"
    /\ program = SliceOf(<< >>)
    /\ pre = CpuNew
    /\ steps = 0
    /\ signal = "none"
    /\ ncalls = 0
    /\ mem = MemNew
    /\ mcall = MemCallNew

\* A public operation can be called: no operation is in progress, the
\* engine has not panicked.
Idle == ret \notin {"running", "panic"} /\ ncalls < MaxCalls

\* let mut cpu = CPU::new(): the engine is dropped and a fresh one made.
New ==
    /\ ret # "running"
    /\ cpu' = CpuNew
    /\ call' = "new"
    /\ ret' = "returned"
    /\ program' = SliceOf(<< >>)
    /\ pre' = CpuNew
    /\ steps' = 0
    /\ signal' = "none"
    /\ ncalls' = 0
    /\ UNCHANGED <<mem, mcall>>

\* cpu.<field> = value
Assign ==
    /\ Idle
    /\ \E as \in Assignments :
          cpu' = [cpu EXCEPT ![as[1]] = as[2]]
    /\ call' = "assign"
    /\ signal' = "none"
    /\ ret' = "returned"
    /\ pre' = cpu
    /\ steps' = 0
    /\ ncalls' = ncalls + 1
    /\ UNCHANGED <<program, mem, mcall>>

\* cpu.load(&program)
Load ==
    /\ Idle
    /\ \E prog \in Programs :
          LET r == load(cpu, prog)
          IN  /\ cpu' = r.cpu
              /\ ret' = IF r.res.ok THEN "Ok" ELSE "Err"
              /\ program' = prog
    /\ call' = "load"
    /\ signal' = "none"
    /\ pre' = cpu
    /\ steps' = 0
    /\ ncalls' = ncalls + 1
    /\ UNCHANGED <<mem, mcall>>

\* cpu.reset()
Reset ==
    /\ Idle
    /\ LET r == reset(cpu)
       IN  cpu' = r.cpu /\ ret' = r.ret
    /\ call' = "reset"
    /\ signal' = "none"
    /\ pre' = cpu
    /\ steps' = 0
    /\ ncalls' = ncalls + 1
    /\ UNCHANGED <<program, mem, mcall>>

\* cpu.step()
Step ==
    /\ Idle
    /\ LET r == step(cpu)
       IN  cpu' = r.cpu /\ ret' = r.ret /\ signal' = r.ret
    /\ call' = "step"
    /\ pre' = cpu
    /\ steps' = 0
    /\ ncalls' = ncalls + 1
    /\ UNCHANGED <<program, mem, mcall>>

\* cpu.run(), up to the head of its loop.
Run ==
    /\ Idle
    /\ cpu' = run_entry(cpu)
    /\ call' = "run"
    /\ signal' = "none"
    /\ ret' = "running"
    /\ pre' = cpu
    /\ steps' = 0
    /\ ncalls' = ncalls + 1
    /\ UNCHANGED <<program, mem, mcall>>

\* One iteration of run()'s loop: if !self.step() { break; }, the loop being
\* followed for at most limit iterations.
RunLoopOf(limit) ==
    /\ ret = "running"
    /\ steps < limit
    /\ LET r == step(cpu)
       IN  /\ cpu' = r.cpu
           /\ signal' = r.ret
           /\ ret' = CASE r.ret = "continue" -> "running"
                       [] r.ret = "halt" -> IF call = "interpret" THEN "Ok" ELSE "returned"
                       [] r.ret = "panic" -> "panic"
    /\ steps' = steps + 1
    /\ UNCHANGED <<call, program, pre, ncalls, mem, mcall>>

RunLoop == RunLoopOf(MaxSteps)

\* cpu.interpret(&program), up to the head of run()'s loop, or to its
\* return where load fails or reset panics.
InterpretOf(progs) ==
    /\ Idle
    /\ \E prog \in progs :
          LET l == load(cpu, prog)
              r == reset(l.cpu)
          IN  /\ program' = prog
              /\ IF ~l.res.ok
                 THEN cpu' = l.cpu /\ ret' = "Err"
                 ELSE IF r.ret = "panic"
                 THEN cpu' = r.cpu /\ ret' = "panic"
                 ELSE cpu' = run_entry(r.cpu) /\ ret' = "running"
    /\ call' = "interpret"
    /\ signal' = "none"
    /\ pre' = cpu
    /\ steps' = 0
    /\ ncalls' = ncalls + 1
    /\ UNCHANGED <<mem, mcall>>

Interpret == InterpretOf(Programs)

\* let mut cpu = CPU::new(); cpu.interpret(&program), as the tests call it.
InterpretFresh == cpu = CpuNew /\ ncalls = 0 /\ InterpretOf(BytePrograms)

Next ==
    \/ New
    \/ Assign
    \/ Load
    \/ Reset
    \/ Step
    \/ Run
    \/ RunLoop
    \/ Interpret

Spec == Init /\ [][Next]_vars

\* let mut mem = Mem::new(): the memory is dropped and a fresh one made.
MemCreate ==
    /\ mem' = MemNew
    /\ mcall' = MemCallNew
    /\ UNCHANGED cpu_vars

\* mem.read(addr)
MemRead ==
    /\ mcall.n < MaxMemOps
    /\ \E addr \in MemAddrs :
          mcall' = MemCall("read", addr, 0, Ok(read(mem, addr)), mem, mcall.n + 1)
    /\ UNCHANGED <<mem, cpu_vars>>

\* mem.read16(addr)
MemRead16 ==
    /\ mcall.n < MaxMemOps
    /\ \E addr \in MemAddrs :
          mcall' = MemCall("read16", addr, 0, read16(mem, addr), mem, mcall.n + 1)
    /\ UNCHANGED <<mem, cpu_vars>>

\* mem.write(addr, val)
MemWrite ==
    /\ mcall.n < MaxMemOps
    /\ \E addr \in MemAddrs, val \in {0, 255} :
          /\ mem' = write(mem, addr, val)
          /\ mcall' = MemCall("write", addr, val, Ok("unit"), mem, mcall.n + 1)
    /\ UNCHANGED cpu_vars

\* mem.write16(addr, val)
MemWrite16 ==
    /\ mcall.n < MaxMemOps
    /\ \E addr \in MemAddrs, val \in MemVals :
          LET w == write16(mem, addr, val)
          IN  /\ mem' = w.data
              /\ mcall' = MemCall("write16", addr, val, w.res, mem, mcall.n + 1)
    /\ UNCHANGED cpu_vars

\* mem.write_range(start_addr, val)
MemWriteRange ==
    /\ mcall.n < MaxMemOps
    /\ \E start_addr \in MemAddrs \ {255}, val \in MemSlices :
          LET w == write_range(mem, start_addr, val)
          IN  /\ mem' = w.data
              /\ mcall' = MemCall("write_range", start_addr, val, w.res, mem, mcall.n + 1)
    /\ UNCHANGED cpu_vars

\* The memory as the memory tests use it.
NextMem ==
    \/ MemCreate
    \/ MemRead
    \/ MemRead16
    \/ MemWrite
    \/ MemWrite16
    \/ MemWriteRange

SpecMem == Init /\ [][NextMem]_vars

\* The engine as the tests use it: a fresh engine interprets one program.
NextFresh ==
    \/ New
    \/ InterpretFresh
    \/ RunLoop

SpecFresh == Init /\ [][NextFresh]_vars

\* let mut cpu = CPU::new(); cpu.interpret(&program) of test_inx*.
InterpretInx == cpu = CpuNew /\ ncalls = 0 /\ InterpretOf(InxPrograms)

\* run()'s loop followed to the end of the longest program of InxPrograms.
RunLoopInx == RunLoopOf(MaxInx + 2)

\* A fresh engine interprets one program of increment-X instructions.
NextInx ==
    \/ New
    \/ InterpretInx
    \/ RunLoopInx

SpecInx == Init /\ [][NextInx]_vars

-----------------------------------------------------------------------------
(* Properties. *)

\* A step() is made, by a call of step() or by run()'s loop: the unprimed
\* variables are the state it starts from and the primed ones the state it
\* leaves.
StepTaken == Step \/ RunLoop

\* The opcode byte step() fetches from the engine c.
Fetched(c) == read_mem(c, c.pc)

\* C1: when step() executes jump-absolute (0x4C) at a PC that leaves room for
\* its two operand bytes, it signals continue and the PC afterwards is the
\* 16-bit little-endian operand stored at PC+1..PC+2, whatever the operand
\* is, the instruction's own address included.
JmpSetsPcToOperand ==
    [][(StepTaken /\ Fetched(cpu) = OPCODE_JMP_ABSOLUTE /\ cpu.pc + 2 <= MEM_ADDR_MAX)
          => /\ signal' = "continue"
             /\ cpu'.pc = read(cpu.mem, cpu.pc + 1) + 256 * read(cpu.mem, cpu.pc + 2)]_vars

\* C2: when run() returns, the engine is in the state that repeated calls of
\* step() from the state run() was entered in lead to, PC included, if those
\* calls reach a halt.
RunIsRepeatedStep ==
    (call = "run" /\ ret = "returned")
        => LET r == RepeatStep(pre, MaxSteps)
           IN  r.ret = "halt" => cpu = r.cpu

\* The indices of the slice prog at which prog or the memory data, read
\* from MEM_PRG_ROM_ADDR_START on, holds a non-zero byte: at every other
\* index below prog.len both hold 0.
NonZeroIndices(prog, data) ==
    {i \in DOMAIN prog.data \cup {a - MEM_PRG_ROM_ADDR_START : a \in DOMAIN data} :
        0 <= i /\ i < prog.len}

\* The original statement of C3: after a successful load(program) every
\* byte of the program reads back, read(0x8000 + i) = program[i] for all i
\* below its length, and read16(0xFFFC) = 0x8000.
LoadKeepsEveryByte ==
    (call = "load" /\ ret = "Ok")
        => /\ \A i \in NonZeroIndices(program, cpu.mem) :
                  read(cpu.mem, MEM_PRG_ROM_ADDR_START + i) = At(program, i)
           /\ read16(cpu.mem, INIT_PROGRAM_COUNTER_ADDR) = Ok(MEM_PRG_ROM_ADDR_START)

\* C3, amended: after a successful load(program), read16(0xFFFC) = 0x8000
\* and read(0x8000 + i) = program[i] for every i below the program's length
\* except the offsets 0x7FFC and 0x7FFD, which lie on the reset vector and
\* hold the vector, not the program.
LoadKeepsBytesOffVector ==
    (call = "load" /\ ret = "Ok")
        => /\ \A i \in NonZeroIndices(program, cpu.mem) :
                  MEM_PRG_ROM_ADDR_START + i
                        \notin {INIT_PROGRAM_COUNTER_ADDR, INIT_PROGRAM_COUNTER_ADDR + 1}
                     => read(cpu.mem, MEM_PRG_ROM_ADDR_START + i) = At(program, i)
           /\ read16(cpu.mem, INIT_PROGRAM_COUNTER_ADDR) = Ok(MEM_PRG_ROM_ADDR_START)
           /\ program.len <= MEM_PRG_ROM_SIZE

\* A program filling the whole ROM region, with non-zero bytes where the
\* reset vector lies, has been loaded.
LoadedOverVector ==
    /\ call = "load" /\ ret = "Ok"
    /\ program.len = MEM_PRG_ROM_SIZE
    /\ At(program, INIT_PROGRAM_COUNTER_ADDR - MEM_PRG_ROM_ADDR_START) # 0
    /\ At(program, program.len - 1) # 0

\* C4: load(program) fails if and only if len(program) > 32768, and a failed
\* load leaves memory (the reset vector included), A, X, Y, the flags and PC
\* as they were.
LoadFailsIffTooLong ==
    call = "load"
        => /\ ret \in {"Ok", "Err"}
           /\ ret = "Err" <=> program.len > 32768
           /\ ret = "Err" => cpu = pre

\* A load has failed on an engine that held a program and non-zero registers.
LoadFailed ==
    /\ call = "load" /\ ret = "Err"
    /\ pre.mem # MemNew
    /\ pre.reg_a # 0

\* The original statement of C5: whenever the byte at PC is a catalogued
\* opcode, step() returns continue or halt.
CataloguedNeverPanics ==
    [][(StepTaken /\ Fetched(cpu) \in DOMAIN OPCODE_MAP)
          => signal' \in {"continue", "halt"}]_vars

\* C6: when the byte at PC is not in the catalog, step() panics, and A, X, Y,
\* the flags, PC and memory are as they were before the step.
UnknownOpcodeIsFatal ==
    [][(StepTaken /\ Fetched(cpu) \notin DOMAIN OPCODE_MAP)
          => /\ signal' = "panic"
             /\ ret' = "panic"
             /\ cpu' = cpu]_vars

\* step() has panicked on an unknown opcode after an instruction changed X.
PanickedOnUnknown ==
    /\ signal = "panic"
    /\ Fetched(cpu) \notin DOMAIN OPCODE_MAP
    /\ cpu.reg_x # 0

\* C7: reset() never fails; it leaves A, X and Y at 0 and every flag clear,
\* PC at the little-endian value stored at 0xFFFC..0xFFFD (0 on a fresh
\* engine) and memory as it was, and a second reset() changes nothing.
ResetZeroes ==
    call = "reset"
        => /\ ret = "returned"
           /\ cpu.reg_a = 0 /\ cpu.reg_x = 0 /\ cpu.reg_y = 0
           /\ cpu.reg_status = 0
           /\ cpu.pc = read(pre.mem, 65532) + 256 * read(pre.mem, 65533)
           /\ pre = CpuNew => cpu.pc = 0
           /\ cpu.mem = pre.mem
           /\ reset(cpu) = [cpu |-> cpu, ret |-> "returned"]

\* reset() has run on an engine with a loaded program and a non-zero Y.
ResetFromDirty ==
    /\ call = "reset"
    /\ pre.reg_y # 0
    /\ pre.mem # MemNew
    /\ cpu.pc = 32768

FlagsFrom(c, v) ==
    /\ contains(c.reg_status, StatusZ) <=> v = 0
    /\ contains(c.reg_status, StatusN) <=> (v \div 128) % 2 = 1
    /\ \A f \in {StatusC, StatusI, StatusD, StatusB, StatusV} :
          ~contains(c.reg_status, f)

\* interpret() of the given call has come to its end.
InterpretDone == call = "interpret" /\ ret # "running"

\* C9: for every byte v, interpret([0xA9, v, 0x00]) on a fresh engine ends,
\* after two instructions, with Ok and with A = v, Z set iff v = 0, N set iff
\* bit 7 of v is 1, every other flag clear, and X = Y = 0.
InterpretLdaImmediate ==
    \A v \in U8 :
        (call = "interpret" /\ pre = CpuNew /\ program = LdaProgram(v))
            => /\ ret \in {"running", "Ok"}
               /\ steps >= 2 => ret = "Ok"
               /\ ret = "Ok"
                    => /\ cpu.reg_a = v
                       /\ FlagsFrom(cpu, v)
                       /\ cpu.reg_x = 0 /\ cpu.reg_y = 0

\* interpret([0xA9, 0x8F, 0x00]) on a fresh engine has returned.
InterpretedLdaNegative ==
    InterpretDone /\ pre = CpuNew /\ program = LdaProgram(143) /\ cpu.reg_a = 143

\* C10: for every byte v, interpret([0xA9, v, 0xAA, 0x00]) on a fresh engine
\* ends, after three instructions, with A = X = v (transfer-accumulator-to-X
\* leaves A as load-accumulator set it), Z set iff v = 0, N set iff bit 7 of
\* v is 1, and no other flag set.
InterpretLdaTax ==
    \A v \in U8 :
        (call = "interpret" /\ pre = CpuNew /\ program = LdaTaxProgram(v))
            => /\ ret \in {"running", "Ok"}
               /\ steps >= 3 => ret = "Ok"
               /\ steps >= 1 => cpu.reg_a = v
               /\ ret = "Ok"
                    => /\ cpu.reg_a = v
                       /\ cpu.reg_x = v
                       /\ FlagsFrom(cpu, v)

\* interpret([0xA9, 0xFF, 0xAA, 0x00]) on a fresh engine has returned.
InterpretedLdaTaxNegative ==
    InterpretDone /\ pre = CpuNew /\ program = LdaTaxProgram(255) /\ cpu.reg_x = 255

\* What C11 says of interpret(n times INX; BRK) on a fresh engine: it ends,
\* after n + 1 instructions, with Ok and with X = n mod 256, Z set iff
\* n mod 256 = 0, N set iff n mod 256 >= 128, carry (and every other flag)
\* clear, and A = Y = 0.
InxResult(n) ==
    (call = "interpret" /\ pre = CpuNew /\ program = InxProgram(n))
        => /\ ret \in {"running", "Ok"}
           /\ steps >= n + 1 => ret = "Ok"
           /\ ret = "Ok"
                => /\ cpu.reg_x = n % 256
                   /\ contains(cpu.reg_status, StatusZ) <=> n % 256 = 0
                   /\ contains(cpu.reg_status, StatusN) <=> n % 256 >= 128
                   /\ \A f \in {StatusC, StatusI, StatusD, StatusB, StatusV} :
                         ~contains(cpu.reg_status, f)
                   /\ cpu.reg_a = 0 /\ cpu.reg_y = 0

\* The original statement of C11: InxResult(n) for every n >= 0.
InterpretInxFromZero ==
    program.len - 1 \in 0..MaxInx => InxResult(program.len - 1)

\* C11, amended: for every n from 1 to 32764, interpret(n times INX; BRK) on
\* a fresh engine ends with X = n mod 256, Z set iff n mod 256 = 0, N set iff
\* n mod 256 >= 128, carry clear and A = Y = 0; for n = 0 no instruction
\* updates the flags and Z stays clear.
InterpretInxFromOne ==
    /\ program.len - 1 \in 1..MaxInx => InxResult(program.len - 1)
    /\ (call = "interpret" /\ pre = CpuNew /\ program = InxProgram(0) /\ ret = "Ok")
          => cpu.reg_x = 0 /\ cpu.reg_status = 0

\* interpret(256 times INX; BRK) on a fresh engine has returned: X has
\* wrapped to 0.
InterpretedInxWrapped ==
    InterpretDone /\ pre = CpuNew /\ program = InxProgram(256) /\ cpu.reg_x = 0
        /\ steps = 257

-----------------------------------------------------------------------------
(* Operands and the program counter. *)

\* The operand byte of the instruction the engine c is about to fetch.
Operand8(c) == read(c.mem, (c.pc + 1) % 65536)

\* The 16-bit little-endian operand of that instruction.
Operand16(c) == Operand8(c) + 256 * read(c.mem, (c.pc + 2) % 65536)

\* The 16-bit little-endian value at the zero-page address z.
Pointer(c, z) == read(c.mem, z) + 256 * read(c.mem, z + 1)

\* The address the resolver of the engine c gives the instruction at PC.
Resolved(c) ==
    read_operand_address(c, (c.pc + 1) % 65536, OPCODE_MAP[Fetched(c)].addressing_mode)

\* C15: for load-accumulator in IndirectY mode (0xB1) the resolver takes the
\* one operand byte z as the zero-page address of a pointer: the effective
\* address is (read16(z) + Y) mod 65536, whatever the byte after the operand
\* is.
IndirectYThroughZeroPage ==
    [][(StepTaken /\ Fetched(cpu) = OPCODE_LDA_INDIRECTY)
          => LET ea == (Pointer(cpu, Operand8(cpu)) + cpu.reg_y) % 65536
             IN  /\ Resolved(cpu) = Ok(ea)
                 /\ cpu'.reg_a = read(cpu.mem, ea)]_vars

\* The total length in bytes, opcode byte included, of an instruction in the
\* given addressing mode.
Length(addressing_mode) ==
    CASE addressing_mode = "NoneAddressing" -> 1
      [] addressing_mode \in {"Immediate", "ZeroPage", "ZeroPageX", "IndirectX",
                              "IndirectY"} -> 2
      [] addressing_mode \in {"Absolute", "AbsoluteX", "AbsoluteY"} -> 3

\* C16: after step() has executed a catalogued instruction that is not a
\* jump (break, load-accumulator in every mode, increment-X, transfer A to
\* X), PC is the old PC plus the length of the instruction, modulo 65536.
PcAdvancesByLength ==
    [][(StepTaken /\ Fetched(cpu) \in DOMAIN OPCODE_MAP
            /\ OPCODE_MAP[Fetched(cpu)].name # "JMP" /\ signal' # "panic")
          => cpu'.pc = (cpu.pc + Length(OPCODE_MAP[Fetched(cpu)].addressing_mode)) % 65536]_vars

\* The address the resolver table gives load-accumulator with the opcode
\* byte op on the engine c.
TableAddress(c, op) ==
    CASE op = OPCODE_LDA_ZEROPAGE -> Operand8(c)
      [] op = OPCODE_LDA_ZEROPAGEX -> (Operand8(c) + c.reg_x) % 256
      [] op = OPCODE_LDA_ABSOLUTE -> Operand16(c)
      [] op = OPCODE_LDA_ABSOLUTEX -> (Operand16(c) + c.reg_x) % 65536
      [] op = OPCODE_LDA_ABSOLUTEY -> (Operand16(c) + c.reg_y) % 65536
      [] op = OPCODE_LDA_INDIRECTX -> Pointer(c, (Operand8(c) + c.reg_x) % 256)

\* C17: when step() has executed load-accumulator in ZeroPage, ZeroPageX,
\* Absolute, AbsoluteX, AbsoluteY or IndirectX mode, the address the resolver
\* gave is that of the table (below 256 for ZeroPageX), A is the byte at that
\* address, and X, Y, memory and the flags C, I, D, B, V are as they were; Z
\* and N are those of the byte loaded.
LdaReadsTableAddress ==
    [][(StepTaken /\ signal' # "panic"
            /\ Fetched(cpu) \in {OPCODE_LDA_ZEROPAGE, OPCODE_LDA_ZEROPAGEX,
                                 OPCODE_LDA_ABSOLUTE, OPCODE_LDA_ABSOLUTEX,
                                 OPCODE_LDA_ABSOLUTEY, OPCODE_LDA_INDIRECTX})
          => LET ea == TableAddress(cpu, Fetched(cpu))
             IN  /\ Resolved(cpu) = Ok(ea)
                 /\ Fetched(cpu) = OPCODE_LDA_ZEROPAGEX => ea < 256
                 /\ cpu'.reg_a = read(cpu.mem, ea)
                 /\ cpu'.reg_x = cpu.reg_x /\ cpu'.reg_y = cpu.reg_y
                 /\ cpu'.mem = cpu.mem
                 /\ \A f \in {StatusC, StatusI, StatusD, StatusB, StatusV} :
                       contains(cpu'.reg_status, f) <=> contains(cpu.reg_status, f)
                 /\ contains(cpu'.reg_status, StatusZ) <=> cpu'.reg_a = 0
                 /\ contains(cpu'.reg_status, StatusN) <=> cpu'.reg_a >= 128]_vars

\* run() has executed INX and LDA $FF,X, whose index sum wraps to address 0,
\* then LDA ($FF,X), and continues.
LoadedThroughWrappedZeroPage ==
    /\ call = "run"
    /\ program = SliceOf(<<232, 181, 255, 161, 255, 0>>)
    /\ pre.reg_y = 255
    /\ steps = 3
    /\ signal = "continue"
    /\ cpu.reg_x = 1
    /\ cpu.pc = 32773

-----------------------------------------------------------------------------
(* The status register; termination; what the instructions leave alone. *)

\* C18: bit 5 of the status byte, the reserved bit, reads 1 in every state
\* the engine reaches: after construction, after reset and after any steps.
ReservedBitIsSet == (cpu.reg_status \div 32) % 2 = 1

\* The engine at the head of run()'s loop when a fresh engine interprets
\* prog, a program that load accepts.
Started(prog) == run_entry(reset(load(CpuNew, prog).cpu).cpu)

\* One of the first n instructions the engine c executes is a jump.
RECURSIVE JumpWithin(_, _)
JumpWithin(c, n) ==
    IF n = 0
    THEN FALSE
    ELSE \/ Fetched(c) = OPCODE_JMP_ABSOLUTE
         \/ LET r == step(c)
            IN  r.ret = "continue" /\ JumpWithin(r.cpu, n - 1)

\* C19: on a fresh engine, interpret(program) of an accepted program that
\* executes no jump comes to its end, within as many instructions as the
\* program has bytes and one more, and its end is a break or the panic on
\* an unknown opcode.
InterpretEndsByBreakOrUnknown ==
    (call = "interpret" /\ pre = CpuNew /\ ret # "Err"
        /\ ~JumpWithin(Started(program), steps))
        => /\ ret = "running" => steps <= program.len
           /\ ret # "running"
                 => \/ ret = "Ok" /\ signal = "halt"
                    \/ ret = "panic" /\ Fetched(cpu) \notin DOMAIN OPCODE_MAP

\* The flags no instruction of the catalog updates.
FrameFlags == {StatusC, StatusI, StatusD, StatusB, StatusV}

\* Z and N are both set in the engine c.
ZeroAndNegative(c) ==
    contains(c.reg_status, StatusZ) /\ contains(c.reg_status, StatusN)

\* The engine c is as reset() leaves it.
AfterReset(c) == reset(c).cpu = c

\* The engine is as steps leave one that started with the memory image:
\* memory is image, Y is 0, C, I, D, B, V are clear, Z and N are not both
\* set.
OnlyAXPcZN(image) ==
    /\ cpu.mem = image
    /\ cpu.reg_y = 0
    /\ \A f \in FrameFlags : ~contains(cpu.reg_status, f)
    /\ ~ZeroAndNegative(cpu)

\* C20: no step() and no iteration of run() writes memory or changes Y or
\* the flags C, I, D, B, V, and none sets Z and N together.  In every state
\* that step() and run() reach after load and reset, interpret included,
\* memory is the loaded image, Y is 0, C, I, D, B, V are clear and Z and N
\* are not both set.
StepsChangeOnlyAXPcZN ==
    /\ []((call = "interpret" /\ ret # "Err") => OnlyAXPcZN(load(pre, program).cpu.mem))
    /\ []((call \in {"step", "run"} /\ AfterReset(pre)) => OnlyAXPcZN(pre.mem))
    /\ [][StepTaken
            => /\ cpu'.mem = cpu.mem
               /\ cpu'.reg_y = cpu.reg_y
               /\ \A f \in FrameFlags :
                     contains(cpu'.reg_status, f) <=> contains(cpu.reg_status, f)
               /\ ZeroAndNegative(cpu') => cpu'.reg_status = cpu.reg_status]_vars

\* interpret() on an engine whose Y was 255 has executed INX, LDA $FF,X and
\* LDA ($FF,X) and ended at the break: X is 1, Z is set, Y is 0.
InterpretedFromDirtyY ==
    /\ call = "interpret"
    /\ ret = "Ok"
    /\ program = SliceOf(<<232, 181, 255, 161, 255, 0>>)
    /\ pre.reg_y = 255
    /\ cpu.reg_y = 0
    /\ cpu.reg_x = 1
    /\ contains(cpu.reg_status, StatusZ)

-----------------------------------------------------------------------------
(* The catalog and the handler table. *)

\* The catalog and the handler table cover the same opcode bytes, each once.
TablesAgree ==
    /\ DOMAIN OPCODE_MAP = DOMAIN INSTRUCTION_HANDLERS
    /\ \A i, j \in 1..Len(OPCODES) : OPCODES[i].code = OPCODES[j].code => i = j
    /\ Cardinality(DOMAIN OPCODE_MAP) = Len(OPCODES)
    /\ \A b \in DOMAIN OPCODE_MAP : OPCODE_MAP[b].code = b /\ b \in U8

\* C21: every opcode byte with a descriptor has a handler, no byte has a
\* handler without a descriptor, and no byte has two descriptors; so when
\* step() finds the byte at PC in the catalog, dispatch finds its handler,
\* and a step() that panics there panics in the address resolver.
CatalogMatchesHandlers ==
    /\ []TablesAgree
    /\ [][(StepTaken /\ Fetched(cpu) \in DOMAIN OPCODE_MAP)
            => /\ OPCODE_MAP[Fetched(cpu)].code \in DOMAIN INSTRUCTION_HANDLERS
               /\ signal' = "panic" => ~Resolved(cpu).ok]_vars

\* run() has dispatched LDA $10, LDA $800B, LDA $FFFF,X and LDA $FFF0,Y, each
\* found in the catalog and in the handler table.
DispatchedFourLoads ==
    /\ call = "run"
    /\ program = SliceOf(<<165, 16, 173, 11, 128, 189, 255, 255, 185, 240, 255, 119>>)
    /\ steps = 4
    /\ signal = "continue"
    /\ cpu.reg_a = 0
    /\ cpu.pc = 32779

-----------------------------------------------------------------------------
(* The memory on its own. *)

\* The addresses that hold a non-zero byte before or after the last call.
Touched == DOMAIN mem \cup DOMAIN mcall.pre

\* C12: for every addr in 0..65534 and every 16-bit v, write16(addr, v)
\* succeeds and a following read16(addr) returns v; the bytes are little
\* endian, read(addr) = v mod 256 and read(addr + 1) = v div 256, and no byte
\* other than those at addr and addr + 1 is changed.
Write16ThenRead16 ==
    (mcall.op = "write16" /\ mcall.addr \in 0..65534)
        => /\ mcall.res = Ok("unit")
           /\ read16(mem, mcall.addr) = Ok(mcall.val)
           /\ read(mem, mcall.addr) = mcall.val % 256
           /\ read(mem, mcall.addr + 1) = mcall.val \div 256
           /\ \A a \in Touched \ {mcall.addr, mcall.addr + 1} :
                 read(mem, a) = read(mcall.pre, a)

\* write16(0xFFFE, 0xCCFF) has overwritten a memory that held other bytes.
Wrote16AtTop ==
    /\ mcall.op = "write16"
    /\ mcall.addr = 65534
    /\ mcall.val = 52479
    /\ mcall.res.ok
    /\ read(mcall.pre, 65535) = 7
    /\ read(mem, 65535) = 204

\* C13: read16 and write16 fail at 0xFFFF, for every value and every memory,
\* and at no other address; a write16 that failed has left every byte of the
\* memory as it was.
Fail16OnlyAtMax ==
    /\ mcall.op \in {"read16", "write16"}
          => (~mcall.res.ok <=> mcall.addr = MEM_ADDR_MAX)
    /\ (mcall.op = "write16" /\ ~mcall.res.ok) => mem = mcall.pre

\* write16(0xFFFF, 0xCCFF) has failed on a memory that holds bytes at 0 and
\* at 0xFFFF.
Write16Failed ==
    /\ mcall.op = "write16"
    /\ mcall.addr = MEM_ADDR_MAX
    /\ mcall.val = 52479
    /\ ~mcall.res.ok
    /\ read(mem, 0) = 9
    /\ read(mem, 65535) = 7

\* C14: write_range(start, bytes) fails iff start + len(bytes) > 65536.  When
\* it succeeds, read(start + i) = bytes[i] for every i below len(bytes) and
\* every address outside start..start + len(bytes) - 1 holds what it held;
\* when it fails, no byte of the memory is changed.
WriteRangeContract ==
    mcall.op = "write_range"
        => LET start == mcall.addr
               bytes == mcall.val
               range == start..(start + bytes.len - 1)
           IN  /\ ~mcall.res.ok <=> start + bytes.len > 65536
               /\ mcall.res.ok
                     => /\ \A i \in DOMAIN bytes.data :
                              read(mem, start + i) = bytes.data[i]
                        /\ \A a \in DOMAIN mem :
                              a \in range => (a - start) \in DOMAIN bytes.data
                        /\ \A a \in Touched :
                              a \notin range => read(mem, a) = read(mcall.pre, a)
               /\ ~mcall.res.ok => mem = mcall.pre

\* write_range(0xFFFF, [7]) has overwritten the last byte of the memory.
WroteRangeToEnd ==
    /\ mcall.op = "write_range"
    /\ mcall.addr = 65535
    /\ mcall.val = SliceOf(<<7>>)
    /\ mcall.res.ok
    /\ read(mcall.pre, 65535) = 255
    /\ read(mem, 65535) = 7

====
